---------------------------- MODULE Spec2Model ----------------------------
(***************************************************************************)
(* IPv6 neighbour resolution of grout: the nexthop pool, the per-nexthop   *)
(* hold queue, the control-loop callbacks of modules/ip6/control/nexthop.c *)
(* and the ndp_ns_output datapath node.                                    *)
(*                                                                         *)
(* The control loop is single threaded: each callback is one action.  The  *)
(* datapath nodes run on worker threads and interleave with it, one packet *)
(* per action.  SpecPub refines the two callbacks that publish a nexthop   *)
(* (ndp_probe_input_cb, nh6_add) into their stores, in program order, so   *)
(* that a worker can observe the state between two stores.                 *)
(***************************************************************************)
EXTENDS Integers, Sequences, FiniteSets, TLC

(***************************************************************************)
(* Bounds of the model.                                                    *)
(***************************************************************************)
\* capacity of the nexthop pool (IP6_MAX_NEXT_HOPS, scaled down)
MaxNh == 2
\* packet buffers the datapath can post to the control loop
MaxMbufs == 3
\* capacity of the control -> datapath ring behind post_to_stack
RingSize == 2
\* last value of the tick counter read by rte_get_tsc_cycles()
MaxTick == 2
\* hold queue capacity (configuration value, scaled down)
NH_MAX_HELD_PKTS == 2
\* unicast probes sent before falling back to multicast (configuration)
NH_UCAST_PROBES == 1
\* probes sent before a PENDING nexthop is declared FAILED (configuration)
NH_MAX_PROBES == 2
\* cap of the per-episode dropped-packet history counter
MaxDrops == 1
\* cap of the bcast_probes counter, which the code never bounds
MaxBcast == NH_MAX_PROBES + 1

(***************************************************************************)
(* Values.                                                                 *)
(***************************************************************************)
NULL == 0
GR_IFACE_ID_UNDEF == 0
MAX_VRFS == 1

Slots == 1..MaxNh
Mbufs == 1..MaxMbufs
Ifaces == {1, 2}
\* interfaces that get an IPv6 address configured; iface 2 has none
AddrIfaces == {1}

Unspec == "::"
Mcast == "ff02::1"
RTE_IPV6_ADDR_ALLNODES_LINK_LOCAL == Mcast
\* the solicited-node multicast address of the configured address
SolNode == "ff02::1:ff00:1"
SolNodeA == "ff02::1:ff00:a"
rte_ipv6_addr_is_mcast(a) == a \in {Mcast, SolNode, SolNodeA}
rte_ipv6_addr_is_unspec(a) == a = Unspec
Hosts == {"2001:1::a"}
IfaceAddr(i) == "2001:1::1"
LocalAddrs == {IfaceAddr(i) : i \in AddrIfaces}
UcastAddrs == Hosts \cup LocalAddrs
\* the connected prefix an address belongs to
PrefixOf(a) == "2001:1::/64"
Prefixes == {PrefixOf(a) : a \in UcastAddrs}
\* a prefix routed through a gateway
GwPrefix == "2001:2::/64"
RouteKeys == UcastAddrs \cup Prefixes \cup {GwPrefix}

ZeroMac == "00:00"
IfaceMac(i) == IF i = 1 THEN "e1:01" ELSE "e2:02"
Macs == {"aa:01", "bb:02"}

GR_NH_F_STATIC == "STATIC"
GR_NH_F_LOCAL == "LOCAL"
GR_NH_F_LINK == "LINK"
GR_NH_F_GATEWAY == "GATEWAY"
GR_NH_F_REACHABLE == "REACHABLE"
GR_NH_F_STALE == "STALE"
GR_NH_F_PENDING == "PENDING"
GR_NH_F_FAILED == "FAILED"

ICMP6_TYPE_NEIGH_SOLICIT == "NS"
ICMP6_TYPE_NEIGH_ADVERT == "NA"
IcmpTypes == {ICMP6_TYPE_NEIGH_SOLICIT, ICMP6_TYPE_NEIGH_ADVERT, "ECHO"}

VARIABLES
    nh,       \* the pool: slot -> struct nexthop (used: off the free list)
    fib,      \* the route table: route key -> slot of its nexthop, or NULL
    m_loc,    \* where each packet buffer is: pool, held, ring, lost
    m_next,   \* queue_mbuf_data(m)->next of each packet buffer
    ring,     \* control -> datapath ring filled by post_to_stack
    now,      \* rte_get_tsc_cycles()
    aborted,  \* ABORT() was called
    cpc,      \* position of the control loop inside a publishing callback
    last,     \* history: the step just taken, when nothing else shows it
    hist      \* history: per nexthop counters of the current unresolved episode

vars == <<nh, fib, m_loc, m_next, ring, now, aborted, cpc, last, hist>>

(***************************************************************************)
(* struct nexthop, zeroed.                                                 *)
(***************************************************************************)
NhZero ==
    [used |-> FALSE, vrf_id |-> 0, iface_id |-> GR_IFACE_ID_UNDEF,
     ipv6 |-> Unspec, lladdr |-> ZeroMac, flags |-> {}, ref_count |-> 0,
     ucast_probes |-> 0, bcast_probes |-> 0,
     last_request |-> 0, last_reply |-> 0,
     held_pkts_head |-> NULL, held_pkts_tail |-> NULL, held_pkts_num |-> 0]

HistZero == [solicits |-> 0, misses |-> 0, drops |-> 0]
Idle == [step |-> "idle", nh |-> NULL, mac |-> ZeroMac]
\* the history of a step: the callback, how it ended, and for the outcomes
\* that show nowhere else, the nexthop and the link-layer address involved
Last(op, out, s, mac) == [op |-> op, out |-> out, nh |-> s, mac |-> mac]
Quiet == Last("", "", NULL, ZeroMac)

MinOf(S) == CHOOSE x \in S : \A y \in S : x <= y
Min(a, b) == IF a < b THEN a ELSE b

(***************************************************************************)
(* Nexthop pool (4.A).                                                     *)
(***************************************************************************)
FreeSlots(p) == {s \in Slots : ~p[s].used}

\* new(vrf, iface, addr): the slot taken off the free list, or NULL
ip6_nexthop_new(p, vrf_id, iface_id, ip) ==
    IF ip \in {Unspec, Mcast} \/ FreeSlots(p) = {} THEN NULL
    ELSE MinOf(FreeSlots(p))

\* the pool once slot s has been initialised by new()
PoolNew(p, s, vrf_id, iface_id, ip) ==
    [p EXCEPT ![s] = [NhZero EXCEPT !.used = TRUE, !.vrf_id = vrf_id,
                                    !.iface_id = iface_id, !.ipv6 = ip]]

\* lookup(vrf, iface, addr): lowest matching slot; iface UNDEF matches any
ip6_nexthop_lookup(p, vrf_id, iface_id, ip) ==
    LET M == {s \in Slots : /\ p[s].used
                            /\ p[s].vrf_id = vrf_id
                            /\ p[s].ipv6 = ip
                            /\ (iface_id = GR_IFACE_ID_UNDEF \/ p[s].iface_id = iface_id)}
    IN IF M = {} THEN NULL ELSE MinOf(M)

(***************************************************************************)
(* Hold queue: the chain of packets linked from held_pkts_head.            *)
(***************************************************************************)
RECURSIVE ChainFrom(_, _, _)
ChainFrom(m, nx, fuel) ==
    IF m = NULL \/ fuel = 0 THEN <<>>
    ELSE <<m>> \o ChainFrom(nx[m], nx, fuel - 1)

Chain(n, nx) == ChainFrom(n.held_pkts_head, nx, MaxMbufs)

SeqToSet(q) == {q[i] : i \in 1..Len(q)}

(***************************************************************************)
(* Route table (6): host routes and connected (LINK) routes.               *)
(***************************************************************************)
\* longest prefix match: the host route, else the connected route
ip6_route_lookup(f, vrf_id, iface_id, dst) ==
    IF dst \notin UcastAddrs THEN NULL
    ELSE IF f[dst] # NULL THEN f[dst]
    ELSE f[PrefixOf(dst)]

\* whether route_insert succeeds: the key must be free and the table must
\* have memory for it (ok)
RouteInsertOk(f, key, ok) == ok /\ f[key] = NULL

\* decref(nh): the last reference frees the entry and discards its chain
nexthop_decref(p, s) ==
    IF p[s].ref_count <= 1 THEN [p EXCEPT ![s] = NhZero]
    ELSE [p EXCEPT ![s].ref_count = @ - 1]

(***************************************************************************)
(* Control/data bridge (4.F).                                              *)
(***************************************************************************)
RingFull(r) == Len(r) >= RingSize
StackItem(m, s) == [h |-> "ip6_output", m |-> m, nh |-> s]
SolicitItem(s) == [h |-> "ndp_ns_output", m |-> NULL, nh |-> s]
\* post_to_stack: fails (ring unchanged) when the ring is full
post_to_stack(r, item) == IF RingFull(r) THEN r ELSE Append(r, item)

\* ip6_nexthop_solicit(nh): post the nexthop to ndp_ns_output
ip6_nexthop_solicit(r, s) ==
    IF s = NULL THEN r ELSE post_to_stack(r, SolicitItem(s))


\* route_insert took effect: the route references the nexthop
RouteRef(p, s) == [p EXCEPT ![s].ref_count = @ + 1]
RouteSet(f, key, s) == [f EXCEPT ![key] = s]

Init ==
    /\ nh = [s \in Slots |-> NhZero]
    /\ fib = [k \in RouteKeys |-> NULL]
    /\ m_loc = [m \in Mbufs |-> "pool"]
    /\ m_next = [m \in Mbufs |-> NULL]
    /\ ring = <<>>
    /\ now = 1
    /\ aborted = FALSE
    /\ cpc = Idle
    /\ last = Quiet
    /\ hist = [s \in Slots |-> HistZero]

\* the control loop is between two callbacks
CtlReady == ~aborted /\ cpc = Idle

(***************************************************************************)
(* Interface address configuration: the LOCAL|LINK nexthop of the address  *)
(* and the connected route of its prefix.                                  *)
(***************************************************************************)
addr6_add(i) ==
    LET a == IfaceAddr(i)
        s == ip6_nexthop_new(nh, 0, i, a)
    IN /\ CtlReady
       /\ ip6_nexthop_lookup(nh, 0, i, a) = NULL
       /\ s # NULL
       /\ fib[PrefixOf(a)] = NULL
       /\ nh' = [RouteRef(PoolNew(nh, s, 0, i, a), s) EXCEPT
                    ![s].lladdr = IfaceMac(i),
                    ![s].flags = {GR_NH_F_LOCAL, GR_NH_F_LINK,
                                  GR_NH_F_REACHABLE, GR_NH_F_STATIC}]
       /\ fib' = RouteSet(fib, PrefixOf(a), s)
       /\ hist' = [hist EXCEPT ![s] = HistZero]
       /\ last' = Quiet
       /\ UNCHANGED <<m_loc, m_next, ring, now, aborted, cpc>>

(***************************************************************************)
(* ip6_nexthop_unreachable_cb, nexthop.c:43-116.                           *)
(***************************************************************************)
\* line 98 with the comparison off by one
HoldQueueHasRoomOffByOne(n) == n.held_pkts_num <= NH_MAX_HELD_PKTS

\* line 98: room on the hold queue
HoldQueueHasRoom(n) == n.held_pkts_num < NH_MAX_HELD_PKTS

\* lines 100-105 with the packet linked at the head instead
EnqueueAtHead(n, m) ==
    [n EXCEPT !.held_pkts_head = m,
              !.held_pkts_tail = m,
              !.held_pkts_num = @ + 1]

\* lines 100-105: the nexthop once m is linked at the tail
EnqueueNh(n, m) ==
    [n EXCEPT !.held_pkts_head = IF n.held_pkts_head = NULL THEN m ELSE @,
              !.held_pkts_tail = m,
              !.held_pkts_num = @ + 1]

\* lines 99-103 without the link from the old tail (line 103)
EnqueueNextUnlinked(n, nx, m) == [nx EXCEPT ![m] = NULL]

\* lines 99-103: the next links once m is linked at the tail
EnqueueNext(n, nx, m) ==
    IF n.held_pkts_head = NULL THEN [nx EXCEPT ![m] = NULL]
    ELSE [nx EXCEPT ![m] = NULL, ![n.held_pkts_tail] = m]

\* line 106: a solicit is needed
SolicitNeeded(n) == ~(GR_NH_F_PENDING \in n.flags)

\* line 108: the flags once the solicit has been requested
SetPending(n) == [n EXCEPT !.flags = @ \cup {GR_NH_F_PENDING}]

\* line 86: the packet can be sent right away
IsReachable(n) == GR_NH_F_REACHABLE \in n.flags

\* lines 114-115: free the packet; p and f are the pool and the routes as
\* the callback left them
MissFree(p, f, out, s, m) ==
    /\ nh' = p
    /\ fib' = f
    /\ last' = Quiet
    /\ UNCHANGED <<m_loc, m_next, ring, hist, now, aborted, cpc>>

\* lines 86-116, on nexthop s of pool p
MissResolve(p, f, s, m) ==
    IF IsReachable(p[s]) THEN
        IF RingFull(ring) THEN MissFree(p, f, "reinject_fail", s, m)
        ELSE /\ ring' = post_to_stack(ring, StackItem(m, s))
             /\ m_loc' = [m_loc EXCEPT ![m] = "ring"]
             /\ nh' = p
             /\ fib' = f
             /\ last' = Quiet
             /\ UNCHANGED <<m_next, hist, now, aborted, cpc>>
    ELSE IF HoldQueueHasRoom(p[s]) THEN
        LET sol == SolicitNeeded(p[s])
            q == EnqueueNh(p[s], m)
            posted == sol /\ ~RingFull(ring)
        IN /\ nh' = [p EXCEPT ![s] = IF sol THEN SetPending(q) ELSE q]
           /\ m_next' = EnqueueNext(p[s], m_next, m)
           /\ m_loc' = [m_loc EXCEPT ![m] = "held"]
           /\ ring' = IF sol THEN ip6_nexthop_solicit(ring, s) ELSE ring
           /\ fib' = f
           /\ hist' = [hist EXCEPT ![s].misses = @ + 1,
                                   ![s].solicits = IF posted THEN @ + 1 ELSE @]
           /\ last' = Quiet
           /\ UNCHANGED <<now, aborted, cpc>>
    ELSE
        /\ hist[s].drops < MaxDrops
        /\ nh' = p
        /\ fib' = f
        /\ hist' = [hist EXCEPT ![s].misses = @ + 1, ![s].drops = @ + 1]
        /\ last' = Quiet
        /\ UNCHANGED <<m_loc, m_next, ring, now, aborted, cpc>>

\* the packet buffer the datapath takes from the packet pool for the next
\* packet it posts (the lowest free one: buffers are interchangeable)
rte_pktmbuf_alloc(loc) ==
    LET F == {x \in Mbufs : loc[x] = "pool"} IN
    IF F = {} THEN NULL ELSE MinOf(F)

\* lines 52, 78: the callback takes the LINK pivot, where it inserts a route
MissPivots(iface, dst) ==
    LET r == ip6_route_lookup(fib, 0, iface, dst) IN
    r # NULL /\ GR_NH_F_LINK \in nh[r].flags /\ dst # nh[r].ipv6

\* line 62 with the interface of the packet instead of the LINK route's
PivotIfaceOfPacket(link, iface) == iface

\* line 62: the interface a nexthop created by the pivot is given; link is
\* the nexthop of the LINK route, iface the interface of the packet
PivotIface(link, iface) == link.iface_id

\* m: the packet; iface: its input interface; dst: its destination;
\* rt_ok: the route table has memory for a new route (an outcome drawn only
\* where the callback inserts one)
ip6_nexthop_unreachable_cb(m, iface, dst, rt_ok) ==
    LET r == ip6_route_lookup(fib, 0, iface, dst) IN
    /\ CtlReady
    /\ m = rte_pktmbuf_alloc(m_loc)
    /\ rt_ok \/ MissPivots(iface, dst)
    /\ IF r = NULL THEN MissFree(nh, fib, "no_route", NULL, m)
       ELSE IF GR_NH_F_LINK \in nh[r].flags /\ dst # nh[r].ipv6 THEN
           LET found == ip6_nexthop_lookup(nh, nh[r].vrf_id, iface, dst)
               remote == IF found = NULL
                         THEN ip6_nexthop_new(nh, nh[r].vrf_id,
                                              PivotIface(nh[r], iface), dst)
                         ELSE found
               p1 == IF remote = NULL THEN nh
                     ELSE IF found = NULL
                     THEN PoolNew(nh, remote, nh[r].vrf_id,
                                  PivotIface(nh[r], iface), dst)
                     ELSE IF /\ GR_NH_F_GATEWAY \in nh[found].flags
                             /\ nh[found].iface_id = 0
                     THEN [nh EXCEPT ![found].iface_id = nh[r].iface_id]
                     ELSE nh
           IN IF remote = NULL THEN MissFree(nh, fib, "no_nexthop", NULL, m)
              ELSE IF p1[remote].iface_id # nh[r].iface_id THEN
                  /\ aborted' = TRUE
                  /\ last' = Quiet
                  /\ UNCHANGED <<nh, fib, m_loc, m_next, ring, now, cpc, hist>>
              ELSE IF ~RouteInsertOk(fib, dst, rt_ok)
              THEN MissFree(p1, fib, "rt_fail", remote, m)
              ELSE MissResolve(RouteRef(p1, remote), RouteSet(fib, dst, remote),
                               remote, m)
       ELSE MissResolve(nh, fib, r, m)

(***************************************************************************)
(* ndp_probe_input_cb, nexthop.c:118-201.                                  *)
(***************************************************************************)
\* line 171 with the test left out
IsStaticNever(n) == FALSE

\* line 171: static next hops never need updating
IsStatic(n) == GR_NH_F_STATIC \in n.flags

\* lines 175-177: the stores up to the one that sets REACHABLE; t is the tick
ProbeStoreReachable(n, iface, t) ==
    [n EXCEPT !.last_reply = t,
              !.iface_id = iface,
              !.flags = @ \cup {GR_NH_F_REACHABLE}]

\* lines 178-181 without the reset of the probe counters
ProbeStoreLladdrKeepsCounters(n, mac) ==
    [n EXCEPT !.flags = @ \ {GR_NH_F_STALE, GR_NH_F_PENDING, GR_NH_F_FAILED},
              !.lladdr = mac]

\* lines 178-181: the stores after it, lladdr last
ProbeStoreLladdr(n, mac) ==
    [n EXCEPT !.flags = @ \ {GR_NH_F_STALE, GR_NH_F_PENDING, GR_NH_F_FAILED},
              !.ucast_probes = 0,
              !.bcast_probes = 0,
              !.lladdr = mac]

\* lines 196-198 left out
ProbeKeepQueue(n) == n

\* lines 196-198: the queue is reset
ProbeResetQueue(n) ==
    [n EXCEPT !.held_pkts_head = NULL, !.held_pkts_tail = NULL, !.held_pkts_num = 0]

\* lines 184-195: each held packet, from the head, is posted to ip6_output
\* with o->nh = s; the result of post_to_stack is not looked at
RECURSIVE FlushRing(_, _, _)
FlushRing(r, c, s) ==
    IF c = <<>> THEN r
    ELSE FlushRing(post_to_stack(r, StackItem(Head(c), s)), Tail(c), s)

\* the ring slots a flush of chain c fills
FlushAccepted(r, c) == Min(Len(c), RingSize - Len(r))

\* where the packets of chain c are after the flush: on the ring, or lost
FlushLoc(loc, r, c) ==
    [m \in Mbufs |->
        IF \E i \in 1..Len(c) : c[i] = m
        THEN IF \E i \in 1..FlushAccepted(r, c) : c[i] = m THEN "ring" ELSE "lost"
        ELSE loc[m]]

\* the next links once chain c is gone
Unlink(nx, c) == [m \in Mbufs |-> IF m \in SeqToSet(c) THEN NULL ELSE nx[m]]

\* line 199-200: the probe is freed; p and f as the callback left them
ProbeFree(p, f, out, s, mac) ==
    /\ nh' = p
    /\ fib' = f
    /\ last' = IF out = "static" THEN Last("probe", out, s, mac) ELSE Quiet
    /\ UNCHANGED <<m_loc, m_next, ring, hist, now, aborted, cpc>>

\* lines 178-200 on nexthop s, whose REACHABLE flag is already stored
ProbeFinish(p, s, mac) ==
    LET c == Chain(p[s], m_next) IN
    /\ nh' = [p EXCEPT ![s] = ProbeResetQueue(ProbeStoreLladdr(p[s], mac))]
    /\ ring' = FlushRing(ring, c, s)
    /\ m_loc' = FlushLoc(m_loc, ring, c)
    /\ m_next' = Unlink(m_next, c)
    /\ hist' = [hist EXCEPT ![s] = HistZero]
    /\ last' = Last("probe", "resolved", s, ZeroMac)
    /\ cpc' = Idle

\* the callback, run to its end (atomic) or up to the store of REACHABLE
ProbeCb(iface, type, lladdr_found, target, mac, rt_ok, atomic) ==
    LET found == ip6_nexthop_lookup(nh, 0, iface, target)
        s == IF found = NULL THEN ip6_nexthop_new(nh, 0, iface, target) ELSE found
        p1 == IF found = NULL /\ s # NULL THEN PoolNew(nh, s, 0, iface, target) ELSE nh
        inserted == found = NULL /\ s # NULL /\ RouteInsertOk(fib, target, rt_ok)
        p2 == IF inserted THEN RouteRef(p1, s) ELSE p1
        f2 == IF inserted THEN RouteSet(fib, target, s) ELSE fib
        p3 == [p2 EXCEPT ![s] = ProbeStoreReachable(p2[s], iface, now)]
    IN
    /\ CtlReady
    /\ rt_ok \/ found = NULL
    /\ IF type \notin {ICMP6_TYPE_NEIGH_SOLICIT, ICMP6_TYPE_NEIGH_ADVERT}
          \/ ~lladdr_found
       THEN ProbeFree(nh, fib, "ignored", NULL, ZeroMac)
       ELSE IF s = NULL THEN ProbeFree(nh, fib, "no_nexthop", NULL, ZeroMac)
       ELSE IF found = NULL /\ ~inserted THEN ProbeFree(p1, fib, "rt_fail", s, ZeroMac)
       ELSE IF IsStatic(p2[s]) THEN ProbeFree(p2, f2, "static", s, mac)
       ELSE IF atomic THEN
           /\ fib' = f2
           /\ ProbeFinish(p3, s, mac)
           /\ UNCHANGED <<now, aborted>>
       ELSE
           /\ nh' = p3
           /\ fib' = f2
           /\ cpc' = [step |-> "probe", nh |-> s, mac |-> mac]
           /\ last' = Quiet
           /\ UNCHANGED <<m_loc, m_next, ring, hist, now, aborted>>

ndp_probe_input_cb(iface, type, lladdr_found, target, mac, rt_ok) ==
    ProbeCb(iface, type, lladdr_found, target, mac, rt_ok, TRUE)

(***************************************************************************)
(* nh6_add, nexthop.c:203-230.                                             *)
(***************************************************************************)
\* iface_from_id(id) != NULL
iface_from_id(id) == id \in Ifaces

\* the handler returns ret without having changed anything
ApiRet(op, ret, s, mac) ==
    /\ last' = Quiet
    /\ UNCHANGED <<nh, fib, m_loc, m_next, ring, hist, now, aborted, cpc>>

\* line 225: the link-layer address of the request is stored
AddStoreLladdr(n, mac) == [n EXCEPT !.lladdr = mac]

\* line 226: the flags are stored
AddStoreFlags(n) == [n EXCEPT !.flags = {GR_NH_F_STATIC, GR_NH_F_REACHABLE}]

\* lines 226-229 on the new nexthop s, whose lladdr is already stored
AddFinish(p, s, mac, rt_ok) ==
    LET ok == RouteInsertOk(fib, p[s].ipv6, rt_ok)
        p1 == [p EXCEPT ![s] = AddStoreFlags(p[s])]
    IN /\ nh' = IF ok THEN RouteRef(p1, s) ELSE p1
       /\ fib' = IF ok THEN RouteSet(fib, p[s].ipv6, s) ELSE fib
       /\ hist' = [hist EXCEPT ![s] = HistZero]
       /\ last' = Quiet
       /\ cpc' = Idle
       /\ UNCHANGED <<m_loc, m_next, ring, now, aborted>>

\* lines 216-217 with the exist_ok test failing always
AddExistOkNever(n, iface_id, mac, exist_ok) == FALSE

\* lines 216-217: the request repeats the existing nexthop and tolerates it
AddExistOk(n, iface_id, mac, exist_ok) ==
    /\ exist_ok
    /\ iface_id = n.iface_id
    /\ mac = n.lladdr

\* the error kind the handler returns for a request on pool p and routes f;
\* "EROUTE" stands for the error of a failed route insertion (line 229)
nh6_add_ret(p, f, vrf_id, iface_id, ip, mac, exist_ok, rt_ok) ==
    LET found == ip6_nexthop_lookup(p, vrf_id, iface_id, ip)
        s == ip6_nexthop_new(p, vrf_id, iface_id, ip)
    IN IF ip \in {Unspec, Mcast} THEN "EINVAL"
       ELSE IF vrf_id >= MAX_VRFS THEN "EOVERFLOW"
       ELSE IF ~iface_from_id(iface_id) THEN "ENODEV"
       ELSE IF found # NULL THEN
           IF AddExistOk(p[found], iface_id, mac, exist_ok) THEN "OK" ELSE "EEXIST"
       ELSE IF s = NULL THEN "ENOMEM"
       ELSE IF RouteInsertOk(f, ip, rt_ok) THEN "OK"
       ELSE "EROUTE"

\* the handler, run to its end (atomic) or up to the store of lladdr
AddCb(vrf_id, iface_id, ip, mac, exist_ok, rt_ok, atomic) ==
    LET found == ip6_nexthop_lookup(nh, vrf_id, iface_id, ip)
        s == ip6_nexthop_new(nh, vrf_id, iface_id, ip)
        p1 == [PoolNew(nh, s, vrf_id, iface_id, ip) EXCEPT
                  ![s] = AddStoreLladdr(@, mac)]
    IN
    /\ CtlReady
    /\ rt_ok \/ found = NULL
    /\ IF ip \in {Unspec, Mcast} THEN ApiRet("add", "EINVAL", NULL, mac)
       ELSE IF vrf_id >= MAX_VRFS THEN ApiRet("add", "EOVERFLOW", NULL, mac)
       ELSE IF ~iface_from_id(iface_id) THEN ApiRet("add", "ENODEV", NULL, mac)
       ELSE IF found # NULL THEN
           IF AddExistOk(nh[found], iface_id, mac, exist_ok)
           THEN ApiRet("add", "OK", found, mac)
           ELSE ApiRet("add", "EEXIST", found, mac)
       ELSE IF s = NULL THEN ApiRet("add", "ENOMEM", NULL, mac)
       ELSE IF atomic THEN AddFinish(p1, s, mac, rt_ok)
       ELSE /\ nh' = p1
            /\ cpc' = [step |-> "add", nh |-> s, mac |-> mac]
            /\ last' = Quiet
            /\ UNCHANGED <<fib, m_loc, m_next, ring, hist, now, aborted>>

nh6_add(vrf_id, iface_id, ip, mac, exist_ok, rt_ok) ==
    AddCb(vrf_id, iface_id, ip, mac, exist_ok, rt_ok, TRUE)

(***************************************************************************)
(* nh6_del, nexthop.c:232-252.                                             *)
(***************************************************************************)
\* line 244 without the test of the reference count
DelBusyFlagsOnly(n) ==
    n.flags \cap {GR_NH_F_LOCAL, GR_NH_F_LINK, GR_NH_F_GATEWAY} # {}

\* line 244: the nexthop is protected from deletion
DelBusy(n) ==
    \/ n.flags \cap {GR_NH_F_LOCAL, GR_NH_F_LINK, GR_NH_F_GATEWAY} # {}
    \/ n.ref_count > 1

\* the packets of a chain go back to the packet pool
FreeChainLoc(loc, c) == [m \in Mbufs |-> IF m \in SeqToSet(c) THEN "pool" ELSE loc[m]]

\* route_delete(vrf, iface, ip, 128): the route is removed and its nexthop
\* loses a reference; the last reference frees it with its held packets
ip6_route_delete(key, op, out, mac) ==
    LET s == fib[key]
        freed == nh[s].ref_count <= 1
        c == Chain(nh[s], m_next)
    IN /\ fib' = [fib EXCEPT ![key] = NULL]
       /\ nh' = nexthop_decref(nh, s)
       /\ m_loc' = IF freed THEN FreeChainLoc(m_loc, c) ELSE m_loc
       /\ m_next' = IF freed THEN Unlink(m_next, c) ELSE m_next
       /\ hist' = IF freed THEN [hist EXCEPT ![s] = HistZero] ELSE hist
       /\ last' = IF op = "route_del" THEN Last(op, out, s, mac) ELSE Quiet
       /\ UNCHANGED <<ring, now, aborted, cpc>>

\* the code nh6_del returns in the current state
nh6_del_ret(vrf_id, host, missing_ok) ==
    LET found == ip6_nexthop_lookup(nh, vrf_id, GR_IFACE_ID_UNDEF, host) IN
    IF vrf_id >= MAX_VRFS THEN "EOVERFLOW"
    ELSE IF found = NULL THEN (IF missing_ok THEN "OK" ELSE "ENOENT")
    ELSE IF DelBusy(nh[found]) THEN "EBUSY"
    ELSE IF host \notin RouteKeys \/ fib[host] = NULL THEN "ENOENT"
    ELSE "OK"

nh6_del(vrf_id, host, missing_ok) ==
    LET found == ip6_nexthop_lookup(nh, vrf_id, GR_IFACE_ID_UNDEF, host)
        ret == nh6_del_ret(vrf_id, host, missing_ok)
    IN
    /\ CtlReady
    /\ IF found # NULL /\ ret = "OK"
       THEN ip6_route_delete(host, "del", ret, ZeroMac)
       ELSE ApiRet("del", ret, found, ZeroMac)

(***************************************************************************)
(* Routes through a gateway (6): a route of the operator that references   *)
(* the nexthop of its gateway, and its removal.                            *)
(***************************************************************************)
route6_add(gw) ==
    LET s == ip6_nexthop_lookup(nh, 0, GR_IFACE_ID_UNDEF, gw) IN
    /\ CtlReady
    /\ s # NULL
    /\ fib[GwPrefix] = NULL
    /\ nh' = RouteRef(nh, s)
    /\ fib' = RouteSet(fib, GwPrefix, s)
    /\ last' = Quiet
    /\ UNCHANGED <<m_loc, m_next, ring, hist, now, aborted, cpc>>

route6_del ==
    /\ CtlReady
    /\ fib[GwPrefix] # NULL
    /\ ip6_route_delete(GwPrefix, "route_del", "OK", ZeroMac)

(***************************************************************************)
(* Probe timer expiry of the pool (4.C).                                   *)
(***************************************************************************)
nh_timer(s) ==
    LET n == nh[s]
        c == Chain(n, m_next)
    IN
    /\ CtlReady
    /\ n.used
    /\ ~IsStatic(n)
    /\ IF GR_NH_F_PENDING \in n.flags THEN
          IF n.bcast_probes + n.ucast_probes < NH_MAX_PROBES THEN
              /\ ~RingFull(ring)
              /\ ring' = ip6_nexthop_solicit(ring, s)
              /\ last' = Quiet
              /\ UNCHANGED <<nh, fib, m_loc, m_next, hist, now, aborted, cpc>>
          ELSE
              /\ nh' = [nh EXCEPT ![s] = ProbeResetQueue(
                            [n EXCEPT !.flags = (@ \ {GR_NH_F_PENDING})
                                                  \cup {GR_NH_F_FAILED}])]
              /\ m_loc' = FreeChainLoc(m_loc, c)
              /\ m_next' = Unlink(m_next, c)
              /\ hist' = [hist EXCEPT ![s] = HistZero]
              /\ last' = Quiet
              /\ UNCHANGED <<fib, ring, now, aborted, cpc>>
       ELSE
          /\ GR_NH_F_REACHABLE \in n.flags
          /\ GR_NH_F_STALE \notin n.flags
          /\ now > n.last_reply
          /\ nh' = [nh EXCEPT ![s].flags = @ \cup {GR_NH_F_STALE}]
          /\ last' = Quiet
          /\ UNCHANGED <<fib, m_loc, m_next, ring, hist, now, aborted, cpc>>

(***************************************************************************)
(* ndp_ns_output_process, ndp_ns_output.c:39-110: a datapath node, run by  *)
(* a worker on the solicit at the head of the ring.                        *)
(***************************************************************************)
\* ip6_addr_get_preferred(iface_id, ip): the LOCAL nexthop of the address
\* configured on the interface, or NULL
ip6_addr_get_preferred(p, iface_id, ip) ==
    LET s == ip6_nexthop_lookup(p, 0, iface_id, IfaceAddr(iface_id)) IN
    IF iface_id \in AddrIfaces /\ s # NULL /\ GR_NH_F_LOCAL \in p[s].flags
    THEN s ELSE NULL

\* line 82 without the test of last_reply
SolicitUnicastWithoutReply(n) == n.ucast_probes < NH_UCAST_PROBES

\* line 82: the solicit is sent unicast
SolicitUnicast(n) == n.last_reply # 0 /\ n.ucast_probes < NH_UCAST_PROBES

\* line 86: the solicited-node multicast address of a unicast address, made
\* of its low 24 bits
rte_ipv6_solnode_from_addr(a) == IF a = "2001:1::a" THEN SolNodeA ELSE SolNode

\* lines 82-88, 94: the destination of the solicit
NsOutputDst(n) ==
    IF SolicitUnicast(n) THEN n.ipv6 ELSE rte_ipv6_solnode_from_addr(n.ipv6)

\* lines 82-88, 102: the stores of the node into the nexthop; t is the tick
NsOutputStores(n, t) ==
    IF SolicitUnicast(n)
    THEN [n EXCEPT !.ucast_probes = @ + 1, !.last_request = t]
    ELSE [n EXCEPT !.bcast_probes = @ + 1, !.last_request = t]

ndp_ns_output_process ==
    /\ ~aborted
    /\ ring # <<>>
    /\ Head(ring).h = "ndp_ns_output"
    /\ LET s == Head(ring).nh
           n == nh[s]
           local == ip6_addr_get_preferred(nh, n.iface_id, n.ipv6)
       IN /\ ring' = Tail(ring)
          /\ IF local = NULL THEN
                 /\ last' = Quiet
                 /\ UNCHANGED nh
             ELSE
                 /\ SolicitUnicast(n) \/ n.bcast_probes < MaxBcast
                 /\ nh' = [nh EXCEPT ![s] = NsOutputStores(n, now)]
                 /\ last' = Quiet
    /\ UNCHANGED <<fib, m_loc, m_next, hist, now, aborted, cpc>>

(***************************************************************************)
(* ip6_output: the datapath node takes the packet at the head of the ring  *)
(* and sends it; the buffer goes back to the packet pool.                  *)
(***************************************************************************)
ip6_output_process ==
    /\ ~aborted
    /\ ring # <<>>
    /\ Head(ring).h = "ip6_output"
    /\ ring' = Tail(ring)
    /\ m_loc' = [m_loc EXCEPT ![Head(ring).m] = "pool"]
    /\ last' = Quiet
    /\ UNCHANGED <<nh, fib, m_next, hist, now, aborted, cpc>>

(***************************************************************************)
(* ndp_ns_input_process, ndp_ns_input.c:27-186: a datapath node, run by a  *)
(* worker on a received neighbour solicitation.  It reads the pool, forges *)
(* the advertisement and hands a copy of the probe to the control loop.    *)
(***************************************************************************)
\* lines 73-81 without the test of the hop limit
NsValidAnyHopLimit(pkt) ==
    /\ pkt.code = 0
    /\ ~rte_ipv6_addr_is_mcast(pkt.target)

\* lines 73-81: the validation of the solicitation
NsValid(pkt) ==
    /\ pkt.hop_limit = 255
    /\ pkt.code = 0
    /\ ~rte_ipv6_addr_is_mcast(pkt.target)

\* lines 83-84: the target is a LOCAL nexthop on the receiving interface
NsLocal(p, pkt) ==
    LET local == ip6_nexthop_lookup(p, 0, pkt.iface, pkt.target) IN
    IF local # NULL /\ GR_NH_F_LOCAL \in p[local].flags THEN local ELSE NULL

\* lines 106, 111 with the Solicited flag always set
NaSolicitedAlways(src) == TRUE

\* lines 106, 111: the Solicited flag of the advertisement
NaSolicited(src) == ~rte_ipv6_addr_is_unspec(src)

\* lines 105, 170: the destination of the advertisement
NaDst(src) ==
    IF rte_ipv6_addr_is_unspec(src) THEN RTE_IPV6_ADDR_ALLNODES_LINK_LOCAL ELSE src

\* lines 95, 114: a copy of the probe goes to the control loop
NsCopyWanted(pkt) == ~rte_ipv6_addr_is_unspec(pkt.src) /\ pkt.lladdr_found

NoNa == [solicited |-> FALSE, src |-> Unspec, dst |-> Unspec, mac |-> ZeroMac,
         nh |-> NULL]

\* the edge the packet leaves on, whether a copy is posted to the control
\* loop, and the advertisement forged (lines 142-170)
ndp_ns_input_result(p, pkt) ==
    LET local == NsLocal(p, pkt)
        remote == IF rte_ipv6_addr_is_unspec(pkt.src) THEN NULL
                  ELSE ip6_nexthop_lookup(p, 0, pkt.iface, pkt.src)
    IN IF ~NsValid(pkt) THEN [next |-> "INVAL", copy |-> FALSE, na |-> NoNa]
       ELSE IF local = NULL THEN [next |-> "IGNORE", copy |-> FALSE, na |-> NoNa]
       ELSE IF /\ rte_ipv6_addr_is_unspec(pkt.src)
               /\ ~rte_ipv6_addr_is_mcast(pkt.dst) \/ pkt.lladdr_found
       THEN [next |-> "INVAL", copy |-> FALSE, na |-> NoNa]
       ELSE IF NsCopyWanted(pkt) /\ ~pkt.copy_ok
       THEN [next |-> "ERROR", copy |-> FALSE, na |-> NoNa]
       ELSE [next |-> "IP_OUTPUT",
             copy |-> NsCopyWanted(pkt),
             na |-> [solicited |-> NaSolicited(pkt.src),
                     src |-> p[local].ipv6,
                     dst |-> NaDst(pkt.src),
                     mac |-> p[local].lladdr,
                     nh |-> IF remote # NULL THEN remote ELSE local]]

\* the node on one solicitation; the copy it posts is handled by the control
\* loop with ndp_probe_input_cb, its target replaced by the source (line 132)
ndp_ns_input_process(pkt, rt_ok) ==
    IF ndp_ns_input_result(nh, pkt).copy
    THEN ndp_probe_input_cb(pkt.iface, ICMP6_TYPE_NEIGH_SOLICIT, TRUE, pkt.src,
                            pkt.mac, rt_ok)
    ELSE /\ ~aborted
         /\ rt_ok
         /\ last' = Quiet
         /\ UNCHANGED <<nh, fib, m_loc, m_next, ring, hist, now, aborted, cpc>>

(***************************************************************************)
(* Inputs: the probes the datapath posts and the requests of the operator. *)
(* A malformed input is drawn once for each check it fails.                *)
(***************************************************************************)
ProbeInputs ==
    [iface : Ifaces, type : {ICMP6_TYPE_NEIGH_SOLICIT, ICMP6_TYPE_NEIGH_ADVERT},
     lladdr_found : {TRUE}, target : Hosts, mac : Macs]
    \cup [iface : {1}, type : {ICMP6_TYPE_NEIGH_ADVERT}, lladdr_found : {FALSE},
          target : {"2001:1::a"}, mac : {"aa:01"}]
    \cup [iface : {1}, type : {"ECHO"}, lladdr_found : {TRUE},
          target : {"2001:1::a"}, mac : {"aa:01"}]

AddReqs ==
    [vrf_id : {0}, iface_id : Ifaces, ipv6 : Hosts, mac : Macs, exist_ok : BOOLEAN]
    \cup [vrf_id : {0}, iface_id : {1}, ipv6 : {Unspec, Mcast}, mac : {"aa:01"},
          exist_ok : {FALSE}]
    \cup [vrf_id : {MAX_VRFS}, iface_id : {1}, ipv6 : {"2001:1::a"}, mac : {"aa:01"},
          exist_ok : {FALSE}]
    \cup [vrf_id : {0}, iface_id : {2}, ipv6 : LocalAddrs, mac : {"bb:02"},
          exist_ok : {FALSE}]
    \cup [vrf_id : {0}, iface_id : {GR_IFACE_ID_UNDEF}, ipv6 : {"2001:1::a"},
          mac : {"aa:01"}, exist_ok : {FALSE}]

\* the solicitations received: one well-formed from the unspecified address,
\* one from a neighbour with and one without its link-layer address, and one
\* for each check that refuses a solicitation
NsBase == [iface |-> 1, hop_limit |-> 255, code |-> 0, src |-> Unspec,
           dst |-> SolNode, target |-> IfaceAddr(1), lladdr_found |-> FALSE,
           mac |-> ZeroMac, copy_ok |-> TRUE]
NsFrom == [NsBase EXCEPT !.src = "2001:1::a", !.dst = IfaceAddr(1),
                         !.lladdr_found = TRUE, !.mac = "aa:01"]
NsInputs ==
    {NsBase,
     NsFrom,
     [NsFrom EXCEPT !.lladdr_found = FALSE, !.mac = ZeroMac],
     [NsFrom EXCEPT !.copy_ok = FALSE],
     [NsBase EXCEPT !.lladdr_found = TRUE, !.mac = "aa:01"],
     [NsBase EXCEPT !.dst = IfaceAddr(1)],
     [NsBase EXCEPT !.hop_limit = 64],
     [NsBase EXCEPT !.code = 1],
     [NsBase EXCEPT !.target = SolNode],
     [NsBase EXCEPT !.target = "2001:1::a"],
     [NsBase EXCEPT !.iface = 2]}

DelReqs ==
    [vrf_id : {0}, host : Hosts \cup LocalAddrs, missing_ok : BOOLEAN]
    \cup [vrf_id : {MAX_VRFS}, host : {"2001:1::a"}, missing_ok : {FALSE}]

Tick ==
    /\ ~aborted
    /\ now < MaxTick
    /\ now' = now + 1
    /\ last' = Quiet
    /\ UNCHANGED <<nh, fib, m_loc, m_next, ring, aborted, cpc, hist>>

Next ==
    \/ \E i \in AddrIfaces : addr6_add(i)
    \/ \E m \in Mbufs, i \in Ifaces, d \in UcastAddrs, ok \in BOOLEAN :
           ip6_nexthop_unreachable_cb(m, i, d, ok)
    \/ \E pr \in ProbeInputs, ok \in BOOLEAN :
           ndp_probe_input_cb(pr.iface, pr.type, pr.lladdr_found, pr.target,
                              pr.mac, ok)
    \/ \E pkt \in NsInputs, ok \in BOOLEAN : ndp_ns_input_process(pkt, ok)
    \/ \E rq \in AddReqs, ok \in BOOLEAN :
           nh6_add(rq.vrf_id, rq.iface_id, rq.ipv6, rq.mac, rq.exist_ok, ok)
    \/ \E rq \in DelReqs : nh6_del(rq.vrf_id, rq.host, rq.missing_ok)
    \/ \E gw \in Hosts : route6_add(gw)
    \/ route6_del
    \/ \E s \in Slots : nh_timer(s)
    \/ ndp_ns_output_process
    \/ ip6_output_process
    \/ Tick

Spec == Init /\ [][Next]_vars

(***************************************************************************)
(* SpecPub: the publishing callbacks store by store.                       *)
(***************************************************************************)
\* ndp_probe_input_cb up to line 177
probe_store_reachable(iface, type, lladdr_found, target, mac, rt_ok) ==
    ProbeCb(iface, type, lladdr_found, target, mac, rt_ok, FALSE)

\* ndp_probe_input_cb from line 178
probe_store_lladdr ==
    /\ ~aborted
    /\ cpc.step = "probe"
    /\ ProbeFinish(nh, cpc.nh, cpc.mac)
    /\ UNCHANGED <<fib, now, aborted>>

\* nh6_add up to line 225
add_store_lladdr(vrf_id, iface_id, ip, mac, exist_ok, rt_ok) ==
    AddCb(vrf_id, iface_id, ip, mac, exist_ok, rt_ok, FALSE)

\* nh6_add from line 226
add_store_flags(rt_ok) ==
    /\ ~aborted
    /\ cpc.step = "add"
    /\ AddFinish(nh, cpc.nh, cpc.mac, rt_ok)

PubNext ==
    \/ \E i \in AddrIfaces : addr6_add(i)
    \/ \E m \in Mbufs, i \in Ifaces, d \in UcastAddrs, ok \in BOOLEAN :
           ip6_nexthop_unreachable_cb(m, i, d, ok)
    \/ \E pr \in ProbeInputs, ok \in BOOLEAN :
           probe_store_reachable(pr.iface, pr.type, pr.lladdr_found, pr.target,
                                 pr.mac, ok)
    \/ probe_store_lladdr
    \/ \E rq \in AddReqs, ok \in BOOLEAN :
           add_store_lladdr(rq.vrf_id, rq.iface_id, rq.ipv6, rq.mac,
                            rq.exist_ok, ok)
    \/ \E ok \in BOOLEAN : add_store_flags(ok)
    \/ \E rq \in DelReqs : nh6_del(rq.vrf_id, rq.host, rq.missing_ok)
    \/ \E gw \in Hosts : route6_add(gw)
    \/ route6_del
    \/ \E s \in Slots : nh_timer(s)
    \/ ndp_ns_output_process
    \/ ip6_output_process
    \/ Tick

SpecPub == Init /\ [][PubNext]_vars

(***************************************************************************)
(* Properties.                                                             *)
(***************************************************************************)
HasFlag(s, f) == f \in nh[s].flags
HeldChain(s) == Chain(nh[s], m_next)

\* C1: in every reachable state every nexthop holds at most NH_MAX_HELD_PKTS
\* packets on its hold queue, by its counter and by the chain itself.
HeldBounded ==
    \A s \in Slots :
        /\ nh[s].held_pkts_num <= NH_MAX_HELD_PKTS
        /\ Len(HeldChain(s)) <= NH_MAX_HELD_PKTS

\* a hold queue is full
HeldFull ==
    \E s \in Slots :
        /\ nh[s].used
        /\ nh[s].held_pkts_num = NH_MAX_HELD_PKTS
        /\ Len(HeldChain(s)) = NH_MAX_HELD_PKTS

\* C2: in every reachable state a nexthop with REACHABLE set holds no packet.
ReachableHoldsNothing ==
    \A s \in Slots :
        HasFlag(s, GR_NH_F_REACHABLE) =>
            nh[s].held_pkts_num = 0 /\ nh[s].held_pkts_head = NULL

\* a nexthop that had been solicited is REACHABLE and packets for it are on
\* their way to ip6_output
ReachableWithPacketsPosted ==
    \E s \in Slots :
        /\ HasFlag(s, GR_NH_F_REACHABLE)
        /\ ~HasFlag(s, GR_NH_F_STATIC)
        /\ nh[s].last_request # 0
        /\ nh[s].held_pkts_num = 0
        /\ \E i \in 1..Len(ring) : ring[i].h = "ip6_output" /\ ring[i].nh = s

\* C3: no nexthop ever has both PENDING and FAILED set.
PendingFailedExclusive ==
    \A s \in Slots : ~(HasFlag(s, GR_NH_F_PENDING) /\ HasFlag(s, GR_NH_F_FAILED))

\* C4: a probe whose sender resolves to a STATIC nexthop leaves every field
\* of that nexthop, its hold queue and the packets unchanged.
StaticUntouchedByProbe ==
    [][last'.op = "probe" => \A pr \in ProbeInputs :
          LET s == ip6_nexthop_lookup(nh, 0, pr.iface, pr.target) IN
          (/\ s # NULL
           /\ HasFlag(s, GR_NH_F_STATIC)
           /\ ndp_probe_input_cb(pr.iface, pr.type, pr.lladdr_found, pr.target,
                                 pr.mac, TRUE))
          => /\ nh'[s] = nh[s]
             /\ m_next' = m_next
             /\ m_loc' = m_loc
             /\ ring' = ring]_vars

\* a probe carrying another link-layer address has just been processed for
\* a nexthop added by NH_ADD
StaticProbeProcessed ==
    /\ last.op = "probe"
    /\ last.out = "static"
    /\ nh[last.nh].used
    /\ HasFlag(last.nh, GR_NH_F_STATIC)
    /\ nh[last.nh].lladdr \in Macs
    /\ last.mac # nh[last.nh].lladdr

\* C5: no state shows REACHABLE on a nexthop whose lladdr is unset or is not
\* yet the one of the resolution in progress.
LladdrPublishedBeforeReachable ==
    \A s \in Slots :
        HasFlag(s, GR_NH_F_REACHABLE) =>
            /\ nh[s].lladdr # ZeroMac
            /\ (cpc.step # "idle" /\ cpc.nh = s) => nh[s].lladdr = cpc.mac

\* C6: no step of a datapath node changes a field of a nexthop.
DatapathWritesNoNexthop ==
    [][ndp_ns_output_process => nh' = nh]_vars

FlushHandsOverInOrder ==
    [][last'.op = "probe" => \A pr \in ProbeInputs :
          LET s == ip6_nexthop_lookup(nh, 0, pr.iface, pr.target)
              c == IF s = NULL THEN <<>> ELSE HeldChain(s)
          IN
          (/\ s # NULL
           /\ c # <<>>
           /\ ndp_probe_input_cb(pr.iface, pr.type, pr.lladdr_found, pr.target,
                                 pr.mac, TRUE)
           /\ GR_NH_F_REACHABLE \in nh'[s].flags)
          => /\ ring' = ring \o [i \in 1..Len(c) |-> StackItem(c[i], s)]
             /\ \A i \in 1..Len(c) : m_loc'[c[i]] = "ring"
             /\ Chain(nh'[s], m_next') = <<>>]_vars

\* C9: a miss for a non-REACHABLE nexthop whose queue is full frees the
\* packet and changes neither the queue nor the nexthop; with room the packet
\* is appended at the tail.  So after k misses of an unresolved episode
\* min(k, NH_MAX_HELD_PKTS) packets are held and the rest were dropped.
MissStep ==
    \A s \in Slots :
        LET c == HeldChain(s)
            m == rte_pktmbuf_alloc(m_loc)
        IN /\ hist'[s].drops = hist[s].drops + 1 =>
                 /\ Len(c) = NH_MAX_HELD_PKTS
                 /\ nh'[s] = nh[s]
                 /\ Chain(nh'[s], m_next') = c
                 /\ m_loc' = m_loc
                 /\ ring' = ring
           /\ (hist'[s].misses = hist[s].misses + 1
               /\ hist'[s].drops = hist[s].drops) =>
                 /\ Len(c) < NH_MAX_HELD_PKTS
                 /\ Chain(nh'[s], m_next') = Append(c, m)
                 /\ nh'[s].held_pkts_tail = m
                 /\ nh'[s].held_pkts_num = Len(c) + 1
                 /\ m_loc'[m] = "held"

HeldIsMinOfMisses ==
    \A s \in Slots :
        (nh[s].used /\ ~HasFlag(s, GR_NH_F_REACHABLE)) =>
            /\ nh[s].held_pkts_num = Min(hist[s].misses, NH_MAX_HELD_PKTS)
            /\ Len(HeldChain(s)) = nh[s].held_pkts_num
            /\ hist[s].drops = hist[s].misses - nh[s].held_pkts_num

MissHoldsOrDrops == []HeldIsMinOfMisses /\ [][MissStep]_vars

\* more misses than the queue holds: the queue is full and one was dropped
MissDroppedOnFullQueue ==
    \E s \in Slots :
        /\ HasFlag(s, GR_NH_F_PENDING)
        /\ hist[s].misses = NH_MAX_HELD_PKTS + 1
        /\ hist[s].drops = 1
        /\ Len(HeldChain(s)) = NH_MAX_HELD_PKTS
        /\ \E m \in Mbufs : m_loc[m] = "pool"

\* C10: while a nexthop is PENDING, the misses of the episode have caused
\* exactly one solicit to be posted for it.
OneSolicitPerPending ==
    \A s \in Slots :
        HasFlag(s, GR_NH_F_PENDING) => hist[s].solicits = 1

\* C11: NH_DEL of an existing nexthop that has LOCAL, LINK or GATEWAY set, or
\* more than one reference, returns EBUSY; a NH_DEL step removes a nexthop
\* only if it had none of these; and once the route that held the extra
\* reference is removed, NH_DEL of the nexthop succeeds.
Protected(s) ==
    \/ nh[s].flags \cap {GR_NH_F_LOCAL, GR_NH_F_LINK, GR_NH_F_GATEWAY} # {}
    \/ nh[s].ref_count > 1

DelRefusesProtected ==
    \A rq \in DelReqs :
        LET found == ip6_nexthop_lookup(nh, rq.vrf_id, GR_IFACE_ID_UNDEF, rq.host)
        IN (rq.vrf_id < MAX_VRFS /\ found # NULL) =>
               /\ Protected(found) =>
                      nh6_del_ret(rq.vrf_id, rq.host, rq.missing_ok) = "EBUSY"
               /\ ~Protected(found) =>
                      nh6_del_ret(rq.vrf_id, rq.host, rq.missing_ok) # "EBUSY"

DelStep ==
    ~UNCHANGED <<nh, fib, m_loc, m_next, ring, hist>>
    => \A rq \in DelReqs :
        LET found == ip6_nexthop_lookup(nh, rq.vrf_id, GR_IFACE_ID_UNDEF, rq.host)
        IN (/\ rq.vrf_id < MAX_VRFS
            /\ found # NULL
            /\ nh6_del(rq.vrf_id, rq.host, rq.missing_ok))
           => /\ ~Protected(found)
              /\ \A s \in Slots :
                    (nh[s].used /\ ~nh'[s].used) =>
                        ~Protected(s) /\ s = fib[rq.host]

DeletableOnceReleased ==
    (/\ last.op = "route_del"
     /\ nh[last.nh].used
     /\ nh[last.nh].flags \cap {GR_NH_F_LOCAL, GR_NH_F_LINK, GR_NH_F_GATEWAY} = {})
    => /\ nh[last.nh].ref_count = 1
       /\ nh6_del_ret(nh[last.nh].vrf_id, nh[last.nh].ipv6, FALSE) = "OK"

DelOnlyUnprotected ==
    [](DelRefusesProtected /\ DeletableOnceReleased) /\ [][DelStep]_vars

\* the route that held a second reference on a learned nexthop has just been
\* removed: NH_DEL was refused before and succeeds now
ReleasedNowDeletable ==
    /\ last.op = "route_del"
    /\ nh[last.nh].used
    /\ ~Protected(last.nh)
    /\ fib[nh[last.nh].ipv6] = last.nh
    /\ nh6_del_ret(0, nh[last.nh].ipv6, FALSE) = "OK"
    /\ \E s \in Slots : HasFlag(s, GR_NH_F_LINK)
                        /\ nh6_del_ret(0, nh[s].ipv6, FALSE) = "EBUSY"

\* C12: a NH_ADD that returned OK, followed by a NH_ADD with the same vrf,
\* iface, addr and mac and exist_ok=true: the second returns OK too, and it
\* changes neither the pool nor the route table nor anything else.
AddTwiceStep ==
    ~UNCHANGED <<nh, fib, m_loc, m_next, ring, hist>>
    => \A rq \in AddReqs :
        LET found == ip6_nexthop_lookup(nh, rq.vrf_id, rq.iface_id, rq.ipv6) IN
        /\ (/\ nh6_add_ret(nh, fib, rq.vrf_id, rq.iface_id, rq.ipv6, rq.mac,
                           rq.exist_ok, TRUE) = "OK"
            /\ nh6_add(rq.vrf_id, rq.iface_id, rq.ipv6, rq.mac, rq.exist_ok, TRUE))
           => /\ nh6_add_ret(nh', fib', rq.vrf_id, rq.iface_id, rq.ipv6, rq.mac,
                             TRUE, TRUE) = "OK"
              /\ ip6_nexthop_lookup(nh', rq.vrf_id, rq.iface_id, rq.ipv6) # NULL
        \* a request that finds its nexthop never takes a state-changing step
        /\ found # NULL
           => ~nh6_add(rq.vrf_id, rq.iface_id, rq.ipv6, rq.mac, rq.exist_ok, TRUE)

AddTwiceIdempotent == [][AddTwiceStep]_vars

\* a nexthop added by NH_ADD is in place with its host route, and the same
\* request with exist_ok=true now returns OK
AddedAndRepeatable ==
    \E s \in Slots :
        /\ HasFlag(s, GR_NH_F_STATIC)
        /\ fib[nh[s].ipv6] = s
        /\ nh[s].ref_count = 1
        /\ nh6_add_ret(nh, fib, nh[s].vrf_id, nh[s].iface_id, nh[s].ipv6,
                       nh[s].lladdr, TRUE, TRUE) = "OK"

\* C13: a NH_ADD that created a nexthop and returned OK, followed by NH_DEL of
\* its address: the NH_DEL returns OK and the nexthops and the host routes are
\* again what they were before the NH_ADD, whatever the pool held before.
AddThenDelStep ==
    ~UNCHANGED <<nh, fib>>
    => /\ \A rq \in AddReqs :
            (/\ ip6_nexthop_lookup(nh, rq.vrf_id, rq.iface_id, rq.ipv6) = NULL
             /\ nh6_add_ret(nh, fib, rq.vrf_id, rq.iface_id, rq.ipv6, rq.mac,
                            rq.exist_ok, TRUE) = "OK"
             /\ nh6_add(rq.vrf_id, rq.iface_id, rq.ipv6, rq.mac, rq.exist_ok, TRUE))
            => /\ (nh6_del_ret(rq.vrf_id, rq.ipv6, FALSE) = "OK")'
               /\ nexthop_decref(nh', fib'[rq.ipv6]) = nh
               /\ [fib' EXCEPT ![rq.ipv6] = NULL] = fib
       /\ \A rq \in DelReqs :
            (/\ nh6_del_ret(rq.vrf_id, rq.host, rq.missing_ok) = "OK"
             /\ ip6_nexthop_lookup(nh, rq.vrf_id, GR_IFACE_ID_UNDEF, rq.host) # NULL
             /\ nh6_del(rq.vrf_id, rq.host, rq.missing_ok))
            => /\ nh' = nexthop_decref(nh, fib[rq.host])
               /\ fib' = [fib EXCEPT ![rq.host] = NULL]

AddThenDelRestores == [][AddThenDelStep]_vars

\* C14: a NH_ADD request with exist_ok=true is never answered EEXIST, whether
\* or not the existing nexthop for its (vrf, iface, addr) has the requested
\* link-layer address.
ExistOkNeverEexist ==
    \A rq \in AddReqs :
        rq.exist_ok =>
            nh6_add_ret(nh, fib, rq.vrf_id, rq.iface_id, rq.ipv6, rq.mac,
                        rq.exist_ok, TRUE) # "EEXIST"

\* C15: a nexthop is in the pool if and only if its ref_count is positive; in
\* particular no nexthop stays allocated with ref_count 0 after the insertion
\* of the host route that should reference it has failed.
InPoolIffReferenced ==
    \A s \in Slots : nh[s].used <=> nh[s].ref_count > 0

\* C16: whenever ndp_ns_output emits a solicit, the nexthop it is for has
\* PENDING or STALE set at that moment, and the emission sets the nexthop's
\* last_request to the current tick.
SolicitEmitStep ==
    (/\ ring # <<>>
     /\ Head(ring).h = "ndp_ns_output"
     /\ ip6_addr_get_preferred(nh, nh[Head(ring).nh].iface_id,
                               nh[Head(ring).nh].ipv6) # NULL
     /\ ndp_ns_output_process)
    => /\ nh[Head(ring).nh].flags \cap {GR_NH_F_PENDING, GR_NH_F_STALE} # {}
       /\ nh'[Head(ring).nh].last_request = now

SolicitOnlyForPendingOrStale == [][SolicitEmitStep]_vars

\* C17: a miss that resolves to a LINK route whose nexthop is not for the
\* destination D either aborts the control loop (the nexthop found for D is
\* bound to another interface), or binds D: a /128 route for D points at a
\* nexthop for D, the one found or a new one, on the LINK route's interface;
\* or, when no nexthop can be created or the route is not inserted, leaves
\* the routes as they were and drops the packet.
PivotStep ==
    ~UNCHANGED <<nh, fib, aborted>>
    => \A m \in Mbufs, iface \in Ifaces, dst \in UcastAddrs, ok \in BOOLEAN :
        LET r == ip6_route_lookup(fib, 0, iface, dst)
            found == ip6_nexthop_lookup(nh, 0, iface, dst)
            wrong == /\ found # NULL
                     /\ nh[found].iface_id # nh[r].iface_id
                     /\ ~(GR_NH_F_GATEWAY \in nh[found].flags
                          /\ nh[found].iface_id = 0)
        IN (/\ MissPivots(iface, dst)
            /\ ip6_nexthop_unreachable_cb(m, iface, dst, ok))
           => IF wrong
              THEN aborted' /\ UNCHANGED <<nh, fib, m_loc, ring>>
              ELSE /\ ~aborted'
                   /\ \/ /\ fib'[dst] # NULL
                         /\ fib' = [fib EXCEPT ![dst] = fib'[dst]]
                         /\ found # NULL => fib'[dst] = found
                         /\ found = NULL => ~nh[fib'[dst]].used
                         /\ nh'[fib'[dst]].used
                         /\ nh'[fib'[dst]].ipv6 = dst
                         /\ nh'[fib'[dst]].iface_id = nh[r].iface_id
                         /\ nh'[fib'[dst]].ref_count = nh[fib'[dst]].ref_count + 1
                      \/ /\ fib' = fib
                         /\ ~ok \/ (found = NULL /\ FreeSlots(nh) = {})
                         /\ m_loc'[m] = "pool"
                         /\ UNCHANGED <<m_next, ring>>

PivotBindsLinkIface == [][PivotStep]_vars

\* the pivot has bound a destination to a nexthop on the LINK interface and
\* holds the packet on it
PivotBound ==
    \E d \in Hosts :
        /\ fib[d] # NULL
        /\ fib[PrefixOf(d)] # NULL
        /\ nh[fib[d]].iface_id = nh[fib[PrefixOf(d)]].iface_id
        /\ GR_NH_F_PENDING \in nh[fib[d]].flags
        /\ nh[fib[d]].held_pkts_num > 0

\* C18: a well-formed neighbour solicitation from the unspecified address
\* whose target is a LOCAL nexthop on the receiving interface is answered by
\* an advertisement with Solicited = 0 sent to the all-nodes address; no copy
\* goes to the control loop and the step changes no nexthop and no route.
UnspecNs(pkt) ==
    /\ pkt.src = Unspec
    /\ pkt.hop_limit = 255 /\ pkt.code = 0
    /\ pkt.dst \in {Mcast, SolNode}
    /\ ~pkt.lladdr_found
    /\ \E s \in Slots : /\ nh[s].used /\ nh[s].ipv6 = pkt.target
                        /\ nh[s].iface_id = pkt.iface
                        /\ GR_NH_F_LOCAL \in nh[s].flags

UnspecNsReply ==
    \A pkt \in NsInputs :
        UnspecNs(pkt) =>
            LET r == ndp_ns_input_result(nh, pkt) IN
            /\ r.next = "IP_OUTPUT"
            /\ ~r.copy
            /\ r.na.solicited = FALSE
            /\ r.na.dst = "ff02::1"
            /\ r.na.src = pkt.target

UnspecNsStep ==
    ~UNCHANGED <<nh, fib, m_loc, m_next, ring, hist>>
    => \A pkt \in NsInputs, ok \in BOOLEAN :
           UnspecNs(pkt) => ~ndp_ns_input_process(pkt, ok)

UnspecNsAnsweredNotLearned == []UnspecNsReply /\ [][UnspecNsStep]_vars

\* the address is configured, so the solicitation from the unspecified
\* address is answered on the output edge
UnspecNsAnswered ==
    /\ UnspecNs(NsBase)
    /\ ndp_ns_input_result(nh, NsBase).next = "IP_OUTPUT"
    /\ ndp_ns_input_result(nh, NsBase).na.mac = IfaceMac(1)

\* C19: a miss on a nexthop that is REACHABLE and STALE puts no packet on the
\* hold queue, leaves REACHABLE set, and starts a re-probe: a solicit for the
\* nexthop is posted and PENDING is set.
StaleMissStep ==
    ~UNCHANGED <<nh, ring, m_loc>>
    => \A m \in Mbufs, iface \in Ifaces, dst \in UcastAddrs :
        LET s == ip6_route_lookup(fib, 0, iface, dst) IN
        (/\ s # NULL
         /\ nh[s].ipv6 = dst
         /\ {GR_NH_F_REACHABLE, GR_NH_F_STALE} \subseteq nh[s].flags
         /\ ip6_nexthop_unreachable_cb(m, iface, dst, TRUE))
        => /\ nh'[s].held_pkts_num = nh[s].held_pkts_num
           /\ m_loc'[m] # "held"
           /\ GR_NH_F_REACHABLE \in nh'[s].flags
           /\ GR_NH_F_PENDING \in nh'[s].flags
           /\ \E i \in 1..Len(ring') : ring'[i] = SolicitItem(s)

StaleMissReprobes == [][StaleMissStep]_vars

\* C20: a PENDING nexthop that never got a reply is probed again on timer
\* expiry while bcast_probes + ucast_probes < NH_MAX_PROBES, so that no more
\* than NH_MAX_PROBES solicits are emitted for it; the expiry that finds the
\* probes exhausted makes it FAILED and drops every held packet; and a later
\* miss makes it PENDING again and posts a fresh solicit.
Probes(n) == n.bcast_probes + n.ucast_probes

ProbesBounded ==
    \A s \in Slots :
        (/\ nh[s].used
         /\ GR_NH_F_PENDING \in nh[s].flags
         /\ GR_NH_F_FAILED \notin nh[s].flags
         /\ nh[s].last_reply = 0)
        => Probes(nh[s]) <= NH_MAX_PROBES

TimerStep ==
    \A s \in Slots :
        (/\ GR_NH_F_PENDING \in nh[s].flags
         /\ nh_timer(s))
        => IF Probes(nh[s]) < NH_MAX_PROBES
           THEN /\ ring' = Append(ring, SolicitItem(s))
                /\ GR_NH_F_FAILED \in nh'[s].flags <=> GR_NH_F_FAILED \in nh[s].flags
           ELSE /\ GR_NH_F_FAILED \in nh'[s].flags
                /\ nh'[s].held_pkts_num = 0
                /\ nh'[s].held_pkts_head = NULL
                /\ \A i \in 1..Len(HeldChain(s)) : m_loc'[HeldChain(s)[i]] = "pool"

FailedMissStep ==
    \A m \in Mbufs, iface \in Ifaces, dst \in UcastAddrs :
        LET s == ip6_route_lookup(fib, 0, iface, dst) IN
        (/\ s # NULL
         /\ nh[s].ipv6 = dst
         /\ GR_NH_F_FAILED \in nh[s].flags
         /\ nh[s].flags \cap {GR_NH_F_PENDING, GR_NH_F_REACHABLE} = {}
         /\ ip6_nexthop_unreachable_cb(m, iface, dst, TRUE))
        => /\ GR_NH_F_PENDING \in nh'[s].flags
           /\ ring' = Append(ring, SolicitItem(s))

ExhaustStep ==
    ~UNCHANGED <<nh, ring, m_loc>> => TimerStep /\ FailedMissStep

ProbeExhaustion == []ProbesBounded /\ [][ExhaustStep]_vars

\* C21: each solicit emitted by ndp_ns_output increments exactly one probe
\* counter by one: when the nexthop has last_reply # 0 and ucast_probes below
\* NH_UCAST_PROBES the solicit goes to the nexthop's own address and
\* ucast_probes is incremented, otherwise it goes to the solicited-node
\* multicast address of the target and bcast_probes is incremented.  So a
\* nexthop that never got a reply has ucast_probes = 0, and ucast_probes
\* never exceeds NH_UCAST_PROBES.
UcastProbesBounded ==
    \A s \in Slots :
        /\ nh[s].ucast_probes <= NH_UCAST_PROBES
        /\ nh[s].last_reply = 0 => nh[s].ucast_probes = 0

SolicitCountStep ==
    (/\ ring # <<>>
     /\ Head(ring).h = "ndp_ns_output"
     /\ ip6_addr_get_preferred(nh, nh[Head(ring).nh].iface_id,
                               nh[Head(ring).nh].ipv6) # NULL
     /\ ndp_ns_output_process)
    => LET s == Head(ring).nh
           n == nh[s]
       IN IF n.last_reply # 0 /\ n.ucast_probes < NH_UCAST_PROBES
          THEN /\ NsOutputDst(n) = n.ipv6
               /\ nh'[s].ucast_probes = n.ucast_probes + 1
               /\ nh'[s].bcast_probes = n.bcast_probes
          ELSE /\ NsOutputDst(n) \in {SolNode, SolNodeA}
               /\ NsOutputDst(n) # n.ipv6
               /\ (n.ipv6 = "2001:1::a") = (NsOutputDst(n) = "ff02::1:ff00:a")
               /\ nh'[s].bcast_probes = n.bcast_probes + 1
               /\ nh'[s].ucast_probes = n.ucast_probes

SolicitCountsOneProbe == []UcastProbesBounded /\ [][SolicitCountStep]_vars

\* a nexthop has been probed by multicast first and, after a reply, by
\* unicast
ProbedBothWays ==
    \E s \in Slots :
        /\ nh[s].used
        /\ nh[s].last_reply # 0
        /\ nh[s].ucast_probes = NH_UCAST_PROBES
        /\ nh[s].bcast_probes > 0

\* C22: a nexthop is PENDING only if a solicit for it has been sent since it
\* became PENDING: a solicit for it waits on the ring, or ndp_ns_output has
\* emitted one (a probe counter is positive).  A solicit that could not be
\* posted, or that left on the ERROR edge, does not leave the nexthop PENDING.
PendingHasProbeInFlight ==
    \A s \in Slots :
        (nh[s].used /\ GR_NH_F_PENDING \in nh[s].flags)
        => \/ \E i \in 1..Len(ring) : ring[i] = SolicitItem(s)
           \/ nh[s].bcast_probes + nh[s].ucast_probes > 0

\* C23: a neighbour solicitation that fails validation (hop limit not 255,
\* code not 0, multicast target, or unspecified source with a destination
\* that is not multicast or with a source-lladdr option) leaves on the INVAL
\* edge, and a valid one whose target is not a LOCAL nexthop on the receiving
\* interface leaves on the IGNORE edge; in both cases no advertisement is
\* forged and no copy goes to the control loop.
NsFailsValidation(pkt) ==
    \/ pkt.hop_limit # 255
    \/ pkt.code # 0
    \/ pkt.target \in {Mcast, SolNode, SolNodeA}
    \/ /\ pkt.src = Unspec
       /\ pkt.dst \notin {Mcast, SolNode, SolNodeA} \/ pkt.lladdr_found

NsTargetLocal(pkt) ==
    \E s \in Slots : /\ nh[s].used /\ nh[s].ipv6 = pkt.target
                      /\ nh[s].iface_id = pkt.iface
                      /\ GR_NH_F_LOCAL \in nh[s].flags

NsDropEdges ==
    \A pkt \in NsInputs :
        LET r == ndp_ns_input_result(nh, pkt) IN
        /\ NsFailsValidation(pkt)
               => r.next = "INVAL" /\ ~r.copy /\ r.na = NoNa
        /\ (~NsFailsValidation(pkt) /\ ~NsTargetLocal(pkt))
               => r.next = "IGNORE" /\ ~r.copy /\ r.na = NoNa

\* C23, in the order of the code: a solicitation with a hop limit other than
\* 255, a code other than 0 or a multicast target leaves on INVAL; otherwise
\* one whose target is not a LOCAL nexthop on the receiving interface leaves
\* on IGNORE, also when it comes from the unspecified address with a unicast
\* destination or a source-lladdr option; with a LOCAL target these two
\* failures leave on INVAL.  In every such case no advertisement is forged,
\* no copy goes to the control loop, and the step changes nothing.
NsFailsFirstChecks(pkt) ==
    \/ pkt.hop_limit # 255
    \/ pkt.code # 0
    \/ pkt.target \in {Mcast, SolNode, SolNodeA}

NsDropEdgesInOrder ==
    \A pkt \in NsInputs :
        LET r == ndp_ns_input_result(nh, pkt) IN
        /\ (NsFailsValidation(pkt) \/ ~NsTargetLocal(pkt))
               => r.next \in {"INVAL", "IGNORE"} /\ ~r.copy /\ r.na = NoNa
        /\ NsFailsFirstChecks(pkt) => r.next = "INVAL"
        /\ (~NsFailsFirstChecks(pkt) /\ ~NsTargetLocal(pkt)) => r.next = "IGNORE"
        /\ (NsFailsValidation(pkt) /\ NsTargetLocal(pkt)) => r.next = "INVAL"

NsDropStep ==
    ~UNCHANGED <<nh, fib, m_loc, m_next, ring, hist>>
    => \A pkt \in NsInputs, ok \in BOOLEAN :
           (NsFailsValidation(pkt) \/ ~NsTargetLocal(pkt))
           => ~ndp_ns_input_process(pkt, ok)

NsDroppedInCodeOrder == []NsDropEdgesInOrder /\ [][NsDropStep]_vars

\* the address is configured on interface 1: the malformed solicitations for
\* it are dropped on INVAL, the one for a neighbour's address on IGNORE
NsDroppedOnBothEdges ==
    /\ NsTargetLocal(NsBase)
    /\ ndp_ns_input_result(nh, [NsBase EXCEPT !.dst = IfaceAddr(1)]).next = "INVAL"
    /\ ndp_ns_input_result(nh, [NsBase EXCEPT !.hop_limit = 64]).next = "INVAL"
    /\ ndp_ns_input_result(nh, [NsBase EXCEPT !.target = "2001:1::a"]).next = "IGNORE"
    /\ ndp_ns_input_result(nh, [NsBase EXCEPT !.iface = 2]).next = "IGNORE"

\* C24: no packet is lost: every packet buffer is free in the packet pool,
\* posted once on the ring to ip6_output, or linked on exactly one nexthop's
\* hold queue; a packet taken off a hold queue by a flush is on the ring or
\* free, also when the ring was full.
PacketsAccountedFor ==
    \A m \in Mbufs :
        LET holders == {s \in Slots : nh[s].used /\ m \in SeqToSet(HeldChain(s))}
            posts == {i \in 1..Len(ring) :
                         ring[i].h = "ip6_output" /\ ring[i].m = m}
        IN /\ m_loc[m] \in {"pool", "ring", "held"}
           /\ m_loc[m] = "pool" => holders = {} /\ posts = {}
           /\ m_loc[m] = "ring" => holders = {} /\ Cardinality(posts) = 1
           /\ m_loc[m] = "held" => Cardinality(holders) = 1 /\ posts = {}

\* C25: in every reachable state the hold queue of every nexthop is
\* consistent: held_pkts_num is the number of packets on the chain from
\* held_pkts_head, held_pkts_head is NULL exactly when held_pkts_num is 0,
\* held_pkts_tail is the last packet of the chain and its next link is NULL,
\* and no packet is on two chains or twice on one.
HeldWalk(s) == ChainFrom(nh[s].held_pkts_head, m_next, MaxMbufs + 1)

HoldQueueConsistent ==
    /\ \A s \in Slots :
           LET c == HeldWalk(s) IN
           /\ nh[s].held_pkts_num = Len(c)
           /\ (nh[s].held_pkts_head = NULL) <=> (nh[s].held_pkts_num = 0)
           /\ c # <<>> => /\ nh[s].held_pkts_tail = c[Len(c)]
                          /\ m_next[nh[s].held_pkts_tail] = NULL
           /\ \A i, j \in 1..Len(c) : c[i] = c[j] => i = j
    /\ \A s, t \in Slots :
           s # t => SeqToSet(HeldWalk(s)) \cap SeqToSet(HeldWalk(t)) = {}

\* a hold queue of two packets linked at the tail, and another nexthop whose
\* queue has been flushed
HeldChainOfTwo ==
    \E s \in Slots :
        /\ nh[s].used
        /\ Len(HeldWalk(s)) = 2
        /\ nh[s].held_pkts_head # nh[s].held_pkts_tail
        /\ m_next[nh[s].held_pkts_head] = nh[s].held_pkts_tail

=============================================================================
